---- MODULE Spec2Model ----
(***************************************************************************)
(* A model of src/server/arweave/manual_tx.py: the base64url codec, the    *)
(* JWK loader, the "deep hash" of a v2 transaction, the signer and the     *)
(* submission flow of main().                                              *)
(*                                                                         *)
(* Values.  A Python str or bytes object is a record [k, v]:               *)
(*   k = "raw"    v = the sequence of its character codes / octets         *)
(*                (every str of the model is ASCII, so s.encode("utf-8")   *)
(*                keeps the codes);                                        *)
(*   k = "sha256", "sha384", "rsa"   the octets a primitive returns, kept  *)
(*                as a term over its arguments (the primitives are taken   *)
(*                as injective and as returning non-empty strings);        *)
(*   k = "cat"    a concatenation that has a term among its parts;         *)
(*   k = "b64"    the base64url text of a term;                            *)
(*   k = "err"    a raised exception, v = <<its Python type>>.             *)
(* A dict is the sequence of its <<key, value>> items in insertion order.  *)
(*                                                                         *)
(* Where a value is used several times it is bound as the one element of   *)
(* a set, CHOOSE r \in {body : x \in {value}} : TRUE, which is body with   *)
(* x = value, the value being computed once.                               *)
(***************************************************************************)
EXTENDS Integers, Sequences, FiniteSets, TLC

VARIABLES
    pc,            \* where the scenario under check stands
    data, text, decoded,                    \* the codec's input and results
    tx_fields, dd,                          \* a transaction dict and its deep hash
    other_fields, dd_other,                 \* a second dict compared with it
    private_key,                            \* the key handed to the signer
    before,        \* the dict as it was when sign_transaction_v2 was called
    raised,        \* the type of the exception a call ended with, or "none"
    trace,         \* the hash and signature primitives run, in order
    key_file,      \* arweave-key.json: [found, jwk], jwk the dict it holds
    anchor, reward,                         \* what the node answered
    resp,          \* the status code of the POST, 0 before it
    steps          \* the steps main() has started, in order

codecVars == <<data, text, decoded>>
hashVars == <<tx_fields, dd, other_fields, dd_other>>
signVars == <<private_key, before, raised, trace>>
mainVars == <<key_file, anchor, reward, resp, steps>>
vars == <<pc, codecVars, hashVars, signVars, mainVars>>

(***************************************************************************)
(* Bounds of the model.                                                    *)
(***************************************************************************)
\* longest byte string given to the codec
MaxLen == 3

\* octets the codec's inputs are made of: both ends of the range, and values
\* that set and clear the bits each base64 character carries
ByteVals == {0, 1, 63, 97, 128, 255}

None == [k |-> "none", v |-> << >>]

CodecIdle == data = None /\ text = None /\ decoded = None

HashIdle == tx_fields = << >> /\ dd = None /\ other_fields = << >> /\ dd_other = None

SignIdle == private_key = None /\ before = << >> /\ raised = "none" /\ trace = << >>

MainIdle == key_file = None /\ anchor = None /\ reward = None /\ resp = 0 /\ steps = << >>

(***************************************************************************)
(* Strings and exceptions.                                                 *)
(***************************************************************************)
Raw(s) == [k |-> "raw", v |-> s]

Empty == Raw(<< >>)

Err(type) == [k |-> "err", v |-> <<type>>]

IsErr(x) == x.k = "err"

\* Python's truth value of a str / bytes object: non-empty
Truthy(s) == s # Empty

\* the parts of a byte string: its terms, and its runs of plain octets
Parts(a) == IF a.k = "cat" THEN a.v ELSE IF a = Empty THEN << >> ELSE <<a>>

\* a + b on bytes
Concat(a, b) ==
    IF a.k = "raw" /\ b.k = "raw" THEN Raw(a.v \o b.v)
    ELSE LET p == Parts(a) \o Parts(b)
         IN  IF Len(p) = 1 THEN p[1] ELSE [k |-> "cat", v |-> p]

RECURSIVE SeqsUpTo(_, _)
SeqsUpTo(S, n) ==
    IF n = 0 THEN {<< >>}
    ELSE LET shorter == SeqsUpTo(S, n - 1)
         IN  shorter \cup {Append(s, x) : s \in shorter, x \in S}

(***************************************************************************)
(* base64 (Python's base64 module over binascii).                          *)
(***************************************************************************)
PAD == 61

\* the character of a 6-bit value in the URL-safe alphabet
B64Char(i) ==
    IF i < 26 THEN 65 + i
    ELSE IF i < 52 THEN 97 + (i - 26)
    ELSE IF i < 62 THEN 48 + (i - 52)
    ELSE IF i = 62 THEN 45 ELSE 95

\* the 6-bit value of a character, -1 for a character outside the alphabet.
\* urlsafe_b64decode maps '-' and '_' to '+' and '/' and leaves '+' and '/'
\* themselves in place, so both spellings decode.
B64Val(c) ==
    IF c >= 65 /\ c <= 90 THEN c - 65
    ELSE IF c >= 97 /\ c <= 122 THEN c - 97 + 26
    ELSE IF c >= 48 /\ c <= 57 THEN c - 48 + 52
    ELSE IF c = 45 \/ c = 43 THEN 62
    ELSE IF c = 95 \/ c = 47 THEN 63
    ELSE -1

\* the characters of the octets bs[i..]: 3 octets to 4 characters, the tail
\* padded with '='
RECURSIVE b2a_base64(_, _)
b2a_base64(bs, i) ==
    IF i > Len(bs) THEN << >>
    ELSE IF i = Len(bs) THEN
        <<B64Char(bs[i] \div 4), B64Char((bs[i] % 4) * 16), PAD, PAD>>
    ELSE IF i + 1 = Len(bs) THEN
        <<B64Char(bs[i] \div 4), B64Char((bs[i] % 4) * 16 + bs[i + 1] \div 16),
          B64Char((bs[i + 1] % 16) * 4), PAD>>
    ELSE
        <<B64Char(bs[i] \div 4), B64Char((bs[i] % 4) * 16 + bs[i + 1] \div 16),
          B64Char((bs[i + 1] % 16) * 4 + bs[i + 2] \div 64), B64Char(bs[i + 2] % 64)>>
        \o b2a_base64(bs, i + 3)

\* base64.urlsafe_b64encode
urlsafe_b64encode(bs) == b2a_base64(bs, 1)

\* the number of '=' at the end of s
RECURSIVE TrailingPads(_, _)
TrailingPads(s, n) ==
    IF n < Len(s) /\ s[Len(s) - n] = PAD THEN TrailingPads(s, n + 1) ELSE n

\* str.rstrip("=")
rstrip(s) == SubSeq(s, 1, Len(s) - TrailingPads(s, 0))

\* one character of binascii.a2b_base64 in its default, non-strict mode, as
\* urlsafe_b64decode calls it: a character outside the alphabet is skipped,
\* a '=' is skipped unless it completes a quad (then the rest of the input
\* is ignored), and the low bits a quad's last character has in excess are
\* dropped
a2b_step(st, ch) ==
    IF st.done THEN st
    ELSE IF ch = PAD THEN
        IF st.quad_pos >= 2 /\ st.quad_pos + st.pads + 1 >= 4
        THEN [st EXCEPT !.done = TRUE]
        ELSE [st EXCEPT !.pads = IF st.quad_pos >= 2 THEN @ + 1 ELSE @]
    ELSE CHOOSE r \in {
            IF c = -1 THEN st
            ELSE IF st.quad_pos = 0 THEN
                [st EXCEPT !.quad_pos = 1, !.leftchar = c, !.pads = 0]
            ELSE IF st.quad_pos = 1 THEN
                [st EXCEPT !.quad_pos = 2, !.leftchar = c % 16, !.pads = 0,
                           !.out = Append(@, st.leftchar * 4 + c \div 16)]
            ELSE IF st.quad_pos = 2 THEN
                [st EXCEPT !.quad_pos = 3, !.leftchar = c % 4, !.pads = 0,
                           !.out = Append(@, st.leftchar * 16 + c \div 4)]
            ELSE [st EXCEPT !.quad_pos = 0, !.leftchar = 0, !.pads = 0,
                            !.out = Append(@, st.leftchar * 64 + c)]
            : c \in {B64Val(ch)}} : TRUE

\* the loop over the characters s[lo..hi], left to right, left at once
\* when a '=' ended the input (split in halves to keep the evaluation shallow)
RECURSIVE a2b_loop(_, _, _, _)
a2b_loop(s, lo, hi, st) ==
    IF lo > hi THEN st
    ELSE IF lo = hi THEN CHOOSE r \in {a2b_step(st, ch) : ch \in {s[lo]}} : TRUE
    ELSE CHOOSE r \in {
            IF left.done THEN left ELSE a2b_loop(s, (lo + hi) \div 2 + 1, hi, left)
            : left \in {a2b_loop(s, lo, (lo + hi) \div 2, st)}} : TRUE

\* binascii.a2b_base64(s): an unfinished quad at the end is an error
a2b_base64(s) ==
    CHOOSE r \in {
        IF ~st.done /\ st.quad_pos # 0 THEN Err("binascii.Error") ELSE Raw(st.out)
        : st \in {a2b_loop(s, 1, Len(s),
                           [quad_pos |-> 0, leftchar |-> 0, pads |-> 0,
                            out |-> << >>, done |-> FALSE])}} : TRUE

urlsafe_b64decode(s) == a2b_base64(s)

\* base64url_encode(data); on the octets of a primitive, their text as a term
base64url_encode(bytes) ==
    IF bytes.k = "raw"
    THEN CHOOSE r \in {Raw(rstrip(padded)) : padded \in {urlsafe_b64encode(bytes.v)}} : TRUE
    ELSE [k |-> "b64", v |-> <<bytes>>]

\* a variant of base64url_decode that does not restore the padding
base64url_decode_nopad(s) ==
    IF s.k = "b64" THEN s.v[1]
    ELSE CHOOSE r \in {urlsafe_b64decode(padded) : padded \in {s.v}} : TRUE

\* base64url_decode(s): pad to a multiple of 4, then decode
base64url_decode(s) ==
    IF s.k = "b64" THEN s.v[1]
    ELSE LET rem == Len(s.v) % 4
         IN  CHOOSE r \in {urlsafe_b64decode(padded) : padded \in
                 {IF rem > 0 THEN s.v \o [i \in 1..(4 - rem) |-> PAD] ELSE s.v}} : TRUE

(***************************************************************************)
(* The codec on its own: a byte string is encoded, the text decoded.       *)
(***************************************************************************)
CodecInit ==
    /\ pc = "input"
    /\ data \in {Raw(bs) : bs \in SeqsUpTo(ByteVals, MaxLen)}
    /\ text = None
    /\ decoded = None
    /\ HashIdle
    /\ SignIdle
    /\ MainIdle

Encode ==
    /\ pc = "input"
    /\ text' = base64url_encode(data)
    /\ pc' = "encoded"
    /\ UNCHANGED <<data, decoded, hashVars, signVars, mainVars>>

Decode ==
    /\ pc = "encoded"
    /\ decoded' = base64url_decode(text)
    /\ pc' = "decoded"
    /\ UNCHANGED <<data, text, hashVars, signVars, mainVars>>

CodecNext == Encode \/ Decode

SpecCodec == CodecInit /\ [][CodecNext]_vars

\* the characters of the URL-safe alphabet
UrlSafeChars == {B64Char(i) : i \in 0..63}

\* C10: decoding the encoding of a byte string gives the byte string back,
\* the empty one included; the text holds URL-safe characters only, with no
\* padding left.
C10_RoundTrip ==
    /\ pc # "input" => \A i \in 1..Len(text.v) : text.v[i] \in UrlSafeChars
    /\ pc = "decoded" => decoded = data

\* a byte string whose encoding had two padding characters stripped has been
\* decoded again
C10_Witness == pc = "decoded" /\ Len(data.v) = 1 /\ Len(text.v) = 2

(***************************************************************************)
(* dicts, str() and json.dumps.                                            *)
(***************************************************************************)
Has(d, key) == \E i \in 1..Len(d) : d[i][1] = key

\* d[key]
Get(d, key) == d[CHOOSE i \in 1..Len(d) : d[i][1] = key][2]

\* d[key] = val: a key the dict has keeps its place, a new one comes last
Put(d, key, val) ==
    IF Has(d, key)
    THEN [i \in 1..Len(d) |-> IF d[i][1] = key THEN <<key, val>> ELSE d[i]]
    ELSE Append(d, <<key, val>>)

\* str(n) of an int n >= 0
RECURSIVE DecStr(_)
DecStr(n) ==
    IF n < 10 THEN <<48 + n>> ELSE Append(DecStr(n \div 10), 48 + (n % 10))

\* ", ".join(items)
RECURSIVE Join(_)
Join(items) ==
    IF Len(items) = 0 THEN << >>
    ELSE IF Len(items) = 1 THEN items[1]
    ELSE items[1] \o <<44, 32>> \o Join(Tail(items))

\* json.dumps of a str of letters and digits (nothing to escape): "s"
JsonStr(s) == <<34>> \o s.v \o <<34>>

\* json.dumps of a dict of strs, its items in insertion order: {"k": "v", ...}
JsonDict(d) ==
    <<123>>
    \o Join([i \in 1..Len(d) |-> JsonStr(d[i][1]) \o <<58, 32>> \o JsonStr(d[i][2])])
    \o <<125>>

\* json.dumps(tags) of a list of dicts: [{...}, {...}]
json_dumps(tags) ==
    <<91>> \o Join([i \in 1..Len(tags) |-> JsonDict(tags[i])]) \o <<93>>

(***************************************************************************)
(* Deep hashing.                                                           *)
(***************************************************************************)
sha384(bytes) == [k |-> "sha384", v |-> <<bytes>>]

\* the labels of the chunks, as ASCII
ARWEAVE_FORMAT == Raw(<<65, 82, 87, 69, 65, 86, 69, 95, 70, 79, 82, 77, 65, 84>>)
ARWEAVE_OWNER == Raw(<<65, 82, 87, 69, 65, 86, 69, 95, 79, 87, 78, 69, 82>>)
ARWEAVE_REWARD == Raw(<<65, 82, 87, 69, 65, 86, 69, 95, 82, 69, 87, 65, 82, 68>>)
ARWEAVE_LAST_TX == Raw(<<65, 82, 87, 69, 65, 86, 69, 95, 76, 65, 83, 84, 95, 84, 88>>)
ARWEAVE_DATA_ROOT ==
    Raw(<<65, 82, 87, 69, 65, 86, 69, 95, 68, 65, 84, 65, 95, 82, 79, 79, 84>>)
ARWEAVE_DATA_SIZE ==
    Raw(<<65, 82, 87, 69, 65, 86, 69, 95, 68, 65, 84, 65, 95, 83, 73, 90, 69>>)
ARWEAVE_TAGS == Raw(<<65, 82, 87, 69, 65, 86, 69, 95, 84, 65, 71, 83>>)
ARWEAVE_TARGET == Raw(<<65, 82, 87, 69, 65, 86, 69, 95, 84, 65, 82, 71, 69, 84>>)
ARWEAVE_QUANTITY ==
    Raw(<<65, 82, 87, 69, 65, 86, 69, 95, 81, 85, 65, 78, 84, 73, 84, 89>>)

\* deep_hash_chunk(chunk_type, chunk): sha-384 of label + chunk
deep_hash_chunk(chunk_type, chunk) == sha384(Concat(chunk_type, chunk))

\* the first exception among the values of a sequence, None if there is none
FirstErr(results) ==
    IF \E i \in 1..Len(results) : IsErr(results[i])
    THEN results[CHOOSE i \in 1..Len(results) :
                  IsErr(results[i]) /\ \A j \in 1..(i - 1) : ~IsErr(results[j])]
    ELSE None

\* the KeyError of tx_fields[key] when the dict has no such key, else value
\* (what the statement makes of tx_fields[key])
OrKeyError(tx, key, value) == IF Has(tx, key) THEN value ELSE Err("KeyError")

Utf8(s) == s

StrOfInt(n) == Raw(DecStr(n))

DecodeIfAny(s) == IF Truthy(s) THEN base64url_decode(s) ELSE Empty

DumpTags(tags) == Raw(json_dumps(tags))

\* isinstance(chunk, tuple): no value of the model's bytes is a tuple
IsTuple(chunk) == chunk.k = "tuple"

\* the loop over the (label, chunk) list from its i-th item on:
\* to_hash += deep_hash_chunk(label, chunk) unless the chunk is a tuple
RECURSIVE HashLoop(_, _, _)
HashLoop(entries, i, acc) ==
    IF i > Len(entries) THEN acc
    ELSE LET label == entries[i][1]
             chunk == entries[i][2]
         IN  IF IsTuple(chunk) THEN HashLoop(entries, i + 1, acc)
             ELSE CHOOSE r \in {HashLoop(entries, i + 1, next) : next \in
                      {Concat(acc, deep_hash_chunk(label, chunk))}} : TRUE

\* the (label, chunk) list in the order it is written, the target's item
\* being (b'', b'') when the target is empty
ChunkList(format_bytes, owner_bytes, reward_bytes, last_tx_bytes, data_root_bytes, data_size_bytes, tags_bytes, target, target_bytes, quantity_bytes) ==
    << <<ARWEAVE_FORMAT, format_bytes>>,
       <<ARWEAVE_OWNER, owner_bytes>>,
       <<ARWEAVE_REWARD, reward_bytes>>,
       <<ARWEAVE_LAST_TX, last_tx_bytes>>,
       <<ARWEAVE_DATA_ROOT, data_root_bytes>>,
       <<ARWEAVE_DATA_SIZE, data_size_bytes>>,
       <<ARWEAVE_TAGS, tags_bytes>>,
       IF Truthy(target) THEN <<ARWEAVE_TARGET, target_bytes>> ELSE <<Empty, Empty>>,
       <<ARWEAVE_QUANTITY, quantity_bytes>> >>

\* to_hash as deep_hash_transaction_v2 has it before the final hash, or the
\* exception raised on the way: the fields are read and converted in the
\* order of the statements, all of them before the first chunk is hashed
to_hash(tx) ==
    CHOOSE r \in {
        LET failed == FirstErr(<<format_bytes, owner_bytes, reward_bytes,
                                 last_tx_bytes, data_root_bytes, data_size_bytes,
                                 tags_bytes, target_bytes, quantity_bytes>>)
        IN  IF failed # None THEN failed
            ELSE HashLoop(ChunkList(format_bytes, owner_bytes, reward_bytes,
                                    last_tx_bytes, data_root_bytes, data_size_bytes,
                                    tags_bytes, Get(tx, "target"), target_bytes,
                                    quantity_bytes), 1, Empty)
        : format_bytes \in {OrKeyError(tx, "format", StrOfInt(Get(tx, "format")))},
          owner_bytes \in {OrKeyError(tx, "owner", base64url_decode(Get(tx, "owner")))},
          reward_bytes \in {OrKeyError(tx, "reward", Utf8(Get(tx, "reward")))},
          last_tx_bytes \in {OrKeyError(tx, "last_tx", DecodeIfAny(Get(tx, "last_tx")))},
          data_root_bytes \in
              {OrKeyError(tx, "data_root", base64url_decode(Get(tx, "data_root")))},
          data_size_bytes \in {OrKeyError(tx, "data_size", Utf8(Get(tx, "data_size")))},
          tags_bytes \in {OrKeyError(tx, "tags", DumpTags(Get(tx, "tags")))},
          target_bytes \in {OrKeyError(tx, "target", DecodeIfAny(Get(tx, "target")))},
          quantity_bytes \in {OrKeyError(tx, "quantity", Utf8(Get(tx, "quantity")))}
        } : TRUE

\* deep_hash_transaction_v2(tx_fields): the digest, or the exception raised
deep_hash_transaction_v2(tx) ==
    CHOOSE r \in {IF IsErr(t) THEN t ELSE sha384(t) : t \in {to_hash(tx)}} : TRUE

(***************************************************************************)
(* Transaction dicts, and the values the model gives their fields.         *)
(***************************************************************************)
\* the dict main() builds, its keys in the order main() writes them
TxDict(format, id, last_tx, owner, tags, target, quantity, payload, fee, signature, data_size, data_root) ==
    << <<"format", format>>, <<"id", id>>, <<"last_tx", last_tx>>,
       <<"owner", owner>>, <<"tags", tags>>, <<"target", target>>,
       <<"quantity", quantity>>, <<"data", payload>>, <<"reward", fee>>,
       <<"signature", signature>>, <<"data_size", data_size>>,
       <<"data_root", data_root>> >>

\* "QQ" and "QR" are base64url of the one octet 65 ("QR" with low bits set
\* that encode nothing), "Qg" of 66, "Q" is no base64url at all
Owners == {Raw(<<81, 81>>), Raw(<<81, 82>>), Raw(<<81>>)}

\* "" and "abc"
Anchors == {Empty, Raw(<<97, 98, 99>>)}

\* "" and "QQ"
Targets == {Empty, Raw(<<81, 81>>)}

\* {"name": "a", "value": "b"} and {"name": "a", "value": "c"}
TagAB == << <<Raw(<<110, 97, 109, 101>>), Raw(<<97>>)>>,
            <<Raw(<<118, 97, 108, 117, 101>>), Raw(<<98>>)>> >>
TagAC == << <<Raw(<<110, 97, 109, 101>>), Raw(<<97>>)>>,
            <<Raw(<<118, 97, 108, 117, 101>>), Raw(<<99>>)>> >>

TagLists == {<< >>, <<TagAB>>, <<TagAB, TagAC>>}

\* "0" and "100"
Amounts == {Raw(<<48>>), Raw(<<49, 48, 48>>)}

\* "0" and "2"
Sizes == {Raw(<<48>>), Raw(<<50>>)}

\* "" and "Qg"
Roots == {Empty, Raw(<<81, 103>>)}

Formats == {1, 2}

\* the fields the deep hash reads
CoveredFields ==
    {"format", "owner", "target", "quantity", "reward", "last_tx", "tags",
     "data_size", "data_root"}

FieldValues(f) ==
    CASE f = "format" -> Formats
      [] f = "owner" -> Owners
      [] f = "target" -> Targets
      [] f = "quantity" -> Amounts
      [] f = "reward" -> Amounts
      [] f = "last_tx" -> Anchors
      [] f = "tags" -> TagLists
      [] f = "data_size" -> Sizes
      [] f = "data_root" -> Roots

Reverse(s) == [i \in 1..Len(s) |-> s[Len(s) + 1 - i]]

\* the items of s from the r+1-th on, then its first r
Rotate(s, r) == SubSeq(s, r + 1, Len(s)) \o SubSeq(s, 1, r)

(***************************************************************************)
(* The deep hash on its own: a dict is hashed, then a second dict is made  *)
(* from it (one field changed, or the same items in another order) and     *)
(* hashed too.                                                             *)
(***************************************************************************)
HashInit ==
    /\ pc = "built"
    /\ \E owner \in Owners, last_tx \in Anchors, target \in Targets,
          tags \in {<< >>, <<TagAB>>}, fee \in Amounts, data_size \in Sizes,
          data_root \in Roots :
          tx_fields = TxDict(2, Empty, last_tx, owner, tags, target, Raw(<<48>>),
                             Empty, fee, Empty, data_size, data_root)
    /\ dd = None
    /\ other_fields = << >>
    /\ dd_other = None
    /\ CodecIdle
    /\ SignIdle
    /\ MainIdle

Hash ==
    /\ pc = "built"
    /\ dd' = deep_hash_transaction_v2(tx_fields)
    /\ pc' = "hashed"
    /\ UNCHANGED <<tx_fields, other_fields, dd_other, codecVars, signVars, mainVars>>

\* the same dict with another value stored in one covered field
Tamper ==
    /\ pc = "hashed"
    /\ \E f \in CoveredFields :
          \E val \in FieldValues(f) :
             /\ val # Get(tx_fields, f)
             /\ other_fields' = Put(tx_fields, f, val)
    /\ dd_other' = deep_hash_transaction_v2(other_fields')
    /\ pc' = "tampered"
    /\ UNCHANGED <<tx_fields, dd, codecVars, signVars, mainVars>>

\* the same items, inserted in another order
ReorderFields ==
    /\ pc = "hashed"
    /\ \/ other_fields' = Reverse(tx_fields)
       \/ \E r \in 1..(Len(tx_fields) - 1) : other_fields' = Rotate(tx_fields, r)
    /\ dd_other' = deep_hash_transaction_v2(other_fields')
    /\ pc' = "fields_reordered"
    /\ UNCHANGED <<tx_fields, dd, codecVars, signVars, mainVars>>

\* the same tags, each tag object written value first, name second
ReorderTagEntries ==
    /\ pc = "hashed"
    /\ Len(Get(tx_fields, "tags")) > 0
    /\ LET tags == Get(tx_fields, "tags")
       IN  other_fields' =
               Put(tx_fields, "tags", [i \in 1..Len(tags) |-> Reverse(tags[i])])
    /\ dd_other' = deep_hash_transaction_v2(other_fields')
    /\ pc' = "tag_entries_reordered"
    /\ UNCHANGED <<tx_fields, dd, codecVars, signVars, mainVars>>

HashNext == Hash \/ Tamper \/ ReorderFields \/ ReorderTagEntries

SpecHash == HashInit /\ [][HashNext]_vars

\* the digest of one field as the specification describes it
FieldDigest(label, bytes) == sha384(Concat(label, bytes))

\* the hash of the digests in the order format, owner, target, quantity, fee,
\* anchor, tags, data_size, data_root, of a dict whose fields all decode and
\* whose target is not empty
ProtocolOrderHash(tx) ==
    sha384([k |-> "cat", v |->
        << FieldDigest(ARWEAVE_FORMAT, StrOfInt(Get(tx, "format"))),
           FieldDigest(ARWEAVE_OWNER, base64url_decode(Get(tx, "owner"))),
           FieldDigest(ARWEAVE_TARGET, base64url_decode(Get(tx, "target"))),
           FieldDigest(ARWEAVE_QUANTITY, Get(tx, "quantity")),
           FieldDigest(ARWEAVE_REWARD, Get(tx, "reward")),
           FieldDigest(ARWEAVE_LAST_TX, DecodeIfAny(Get(tx, "last_tx"))),
           FieldDigest(ARWEAVE_TAGS, DumpTags(Get(tx, "tags"))),
           FieldDigest(ARWEAVE_DATA_SIZE, Get(tx, "data_size")),
           FieldDigest(ARWEAVE_DATA_ROOT, base64url_decode(Get(tx, "data_root"))) >>])

\* C1: the canonical hash of a record (here: one with a target, so that all
\* nine fields have a digest) is the 384-bit hash of the field digests in
\* the order format, owner, target, quantity, fee, anchor, tags, data_size,
\* data_root.
C1_ProtocolOrder ==
    (pc = "hashed" /\ ~IsErr(dd) /\ Truthy(Get(tx_fields, "target")))
        => dd = ProtocolOrderHash(tx_fields)

\* C2: with an empty target the digest list that is hashed holds the digests
\* of the other eight fields only: nothing labelled for the target, and no
\* digest of a zero-length chunk.
C2_EmptyTargetAbsent ==
    (pc = "hashed" /\ ~IsErr(dd) /\ ~Truthy(Get(tx_fields, "target")))
        => LET digests == Parts(dd.v[1])
           IN  /\ Len(digests) = 8
               /\ \A i \in 1..Len(digests) : digests[i] # sha384(Empty)

\* C6: two records that differ in the stored value of exactly one covered
\* field, and both have a hash, have different hashes.
C6_TamperChangesHash ==
    (pc = "tampered" /\ ~IsErr(dd) /\ ~IsErr(dd_other)) => dd_other # dd

\* C7: the hash is the same whatever the insertion order of the record's
\* fields and whatever the order of the entries inside each tag object.
C7_OrderIndependent ==
    pc \in {"fields_reordered", "tag_entries_reordered"} => dd_other = dd

(***************************************************************************)
(* Signing.                                                                *)
(***************************************************************************)
sha256(bytes) == [k |-> "sha256", v |-> <<bytes>>]

\* private_key.sign(dd, PKCS1v15, SHA384) when it returns: the signature
rsa_sign(key, digest) == [k |-> "rsa", v |-> <<key, digest>>]

\* steps 1 of sign_transaction_v2: tx_fields["data_root"] is written from
\* tx_fields["data"].  [tx, raised, trace]
SetDataRoot(tx) ==
    IF ~Has(tx, "data") THEN [tx |-> tx, raised |-> "KeyError", trace |-> << >>]
    ELSE IF Truthy(Get(tx, "data")) THEN
        CHOOSE r \in {
            IF IsErr(payload)
            THEN [tx |-> tx, raised |-> payload.v[1], trace |-> << >>]
            ELSE [tx |-> Put(tx, "data_root", base64url_encode(sha256(payload))),
                  raised |-> "none", trace |-> <<"sha256">>]
            : payload \in {base64url_decode(Get(tx, "data"))}} : TRUE
    ELSE [tx |-> Put(tx, "data_root", Empty), raised |-> "none", trace |-> << >>]

\* the sha384 calls that gave the deep hash digest: one a chunk, and the
\* final one
Sha384Calls(digest) == [i \in 1..(Len(Parts(digest.v[1])) + 1) |-> "sha384"]

\* a variant of SignAndStore that stores the signature field before the
\* outcome of the signing step is known
SignAndStore_early(r1, digest, key, sign_ok) ==
    CHOOSE r \in {
        IF ~sign_ok THEN
            [tx |-> Put(r1.tx, "signature", base64url_encode(signature)),
             raised |-> "ValueError",
             trace |-> r1.trace \o Sha384Calls(digest)]
        ELSE [tx |-> Put(Put(r1.tx, "signature", base64url_encode(signature)),
                         "id", base64url_encode(sha256(signature))),
              raised |-> "none",
              trace |-> r1.trace \o Sha384Calls(digest) \o <<"rsa", "sha256">>]
        : signature \in {rsa_sign(key, digest)}} : TRUE

\* steps 3 and on of sign_transaction_v2, r1 being what step 1 left and
\* digest the deep hash: private_key.sign, then the signature and id fields.
\* sign_ok is the library's answer: private_key.sign returns a signature, or
\* raises (a key too short for PKCS1v15 with SHA-384 makes it raise
\* ValueError).
SignAndStore(r1, digest, key, sign_ok) ==
    IF ~sign_ok THEN
        [tx |-> r1.tx, raised |-> "ValueError",
         trace |-> r1.trace \o Sha384Calls(digest)]
    ELSE CHOOSE r \in {
            [tx |-> Put(Put(r1.tx, "signature", base64url_encode(signature)),
                        "id", base64url_encode(sha256(signature))),
             raised |-> "none",
             trace |-> r1.trace \o Sha384Calls(digest) \o <<"rsa", "sha256">>]
            : signature \in {rsa_sign(key, digest)}} : TRUE

\* step 2 of sign_transaction_v2 and what follows: the deep hash of the dict
\* step 1 left, the exception it raises ending the call
HashAndSign(r1, key, sign_ok) ==
    CHOOSE r \in {
        IF IsErr(digest) THEN [r1 EXCEPT !.raised = digest.v[1]]
        ELSE SignAndStore(r1, digest, key, sign_ok)
        : digest \in {deep_hash_transaction_v2(r1.tx)}} : TRUE

\* sign_transaction_v2(tx_fields, private_key): the dict as the call leaves
\* it, the exception it ends with and the primitives it ran
sign_transaction_v2(tx, key, sign_ok) ==
    CHOOSE r \in {
        IF r1.raised # "none" THEN r1 ELSE HashAndSign(r1, key, sign_ok)
        : r1 \in {SetDataRoot(tx)}} : TRUE

(***************************************************************************)
(* The signer on its own: sign_transaction_v2 is called once on a dict     *)
(* whose signature and id are empty.                                       *)
(***************************************************************************)
\* d without its item for key
Del(d, key) == SelectSeq(d, LAMBDA item : item[1] # key)

\* "" ; "aGk", base64url of the two octets "hi" ; "Q", no base64url
Payloads == {Empty, Raw(<<97, 71, 107>>), Raw(<<81>>)}

\* a private key object (RSA numbers of a toy size)
SampleKey == [n |-> 15, e |-> 3, d |-> 3, p |-> 3, q |-> 5]

\* keys a caller's dict may lack
Droppable == {"owner", "data", "quantity"}

SignInit ==
    /\ pc = "built"
    /\ \E owner \in Owners, last_tx \in Anchors, target \in Targets \cup {Raw(<<81>>)},
          payload \in Payloads, data_size \in Sizes, data_root \in Roots :
          LET full == TxDict(2, Empty, last_tx, owner, << >>, target, Raw(<<48>>),
                             payload, Raw(<<49, 48, 48>>), Empty, data_size,
                             data_root)
          IN  \/ tx_fields = full
              \/ \E key \in Droppable : tx_fields = Del(full, key)
    /\ private_key = SampleKey
    /\ before = << >>
    /\ raised = "none"
    /\ trace = << >>
    /\ dd = None
    /\ other_fields = << >>
    /\ dd_other = None
    /\ CodecIdle
    /\ MainIdle

Sign ==
    /\ pc = "built"
    /\ \E sign_ok \in BOOLEAN :
          \E r \in {sign_transaction_v2(tx_fields, private_key, sign_ok)} :
             /\ tx_fields' = r.tx
             /\ raised' = r.raised
             /\ trace' = r.trace
    /\ before' = tx_fields
    /\ pc' = "returned"
    /\ UNCHANGED <<private_key, dd, other_fields, dd_other, codecVars, mainVars>>

SignNext == Sign

SpecSign == SignInit /\ [][SignNext]_vars

\* tx_fields[key], or "" when the dict has no such key
FieldOrEmpty(tx, key) == IF Has(tx, key) THEN Get(tx, key) ELSE Empty

\* C3: after a call on a record whose signature and id are empty, either the
\* call returned and signature is the base64url of the signature bytes and
\* id the base64url of their 256-bit hash, or it raised and both are still
\* empty; never exactly one of them is set.
C3_SignAtomic ==
    pc = "returned" =>
        \/ /\ raised = "none"
           /\ \E signature \in {rsa_sign(private_key,
                                          deep_hash_transaction_v2(tx_fields))} :
                 /\ Get(tx_fields, "signature") = base64url_encode(signature)
                 /\ Get(tx_fields, "id") = base64url_encode(sha256(signature))
           /\ Truthy(Get(tx_fields, "signature"))
           /\ Truthy(Get(tx_fields, "id"))
        \/ /\ raised # "none"
           /\ FieldOrEmpty(tx_fields, "signature") = Empty
           /\ FieldOrEmpty(tx_fields, "id") = Empty

\* the signing step itself failed, after the deep hash was computed
C3_Witness ==
    /\ pc = "returned"
    /\ raised = "ValueError"
    /\ Len(trace) > 0
    /\ trace[Len(trace)] = "sha384"

\* C4: a call that fails on a missing or undecodable field has computed no
\* digest and leaves every field of the record as it was.
C4_FailFast ==
    (pc = "returned" /\ raised \in {"KeyError", "binascii.Error"})
        => trace = << >> /\ tx_fields = before

\* the octets of the record's payload
Payload(tx) == DecodeIfAny(Get(tx, "data"))

\* C5: a record that comes out signed has data_size = the decimal length of
\* its payload and data_root = base64url of the payload's 256-bit digest, or
\* "" and "0" for an empty payload.
C5_DerivedFields ==
    (pc = "returned" /\ raised = "none") =>
        \E payload \in {Payload(tx_fields)} :
            /\ Get(tx_fields, "data_size") = StrOfInt(Len(payload.v))
            /\ Get(tx_fields, "data_root") =
                   IF payload = Empty THEN Empty
                   ELSE base64url_encode(sha256(payload))

(***************************************************************************)
(* The key loader and the node.                                            *)
(***************************************************************************)
\* int.from_bytes(bytes, 'big')
RECURSIVE IntFromBytes(_)
IntFromBytes(bs) ==
    IF Len(bs) = 0 THEN 0
    ELSE IntFromBytes([i \in 1..(Len(bs) - 1) |-> bs[i]]) * 256 + bs[Len(bs)]

\* int.from_bytes(base64url_decode(key_file[name]), 'big'), or the KeyError
\* or binascii.Error raised on the way
JwkInt(d, name) ==
    IF ~Has(d, name) THEN Err("KeyError")
    ELSE CHOOSE r \in {
            IF IsErr(bytes) THEN bytes ELSE [k |-> "int", v |-> <<IntFromBytes(bytes.v)>>]
            : bytes \in {base64url_decode(Get(d, name))}} : TRUE

\* a variant of private_key() that validates nothing
RSAPrivateNumbers_private_key_unchecked(n, e, d, p, q, dp, dq, qi, accepted) ==
    [k |-> "key", v |-> <<[n |-> n, e |-> e, d |-> d, p |-> p, q |-> q]>>]

\* rsa.RSAPrivateNumbers(...).private_key(): the library validates the
\* numbers and raises ValueError for a key that fails: the sizes and parities
\* of the components, then p * q = n; `accepted` is its answer to the checks
\* it makes beyond these (primality, the exponents' relations).
RSAPrivateNumbers_private_key(n, e, d, p, q, dp, dq, qi, accepted) ==
    IF \/ n < 3
       \/ p >= n \/ q >= n \/ dp >= n \/ dq >= n \/ qi >= n \/ d >= n
       \/ e < 3 \/ e >= n
       \/ e % 2 = 0 \/ dp % 2 = 0 \/ dq % 2 = 0
       \/ p * q # n
       \/ ~accepted
    THEN Err("ValueError")
    ELSE [k |-> "key", v |-> <<[n |-> n, e |-> e, d |-> d, p |-> p, q |-> q]>>]

\* load_jwk(filepath): the private key, or the exception raised
load_jwk(file, accepted) ==
    IF ~file.found THEN Err("FileNotFoundError")
    ELSE CHOOSE r \in {
            LET failed == FirstErr(<<n, e, d, p, q, dp, dq, qi>>)
            IN  IF failed # None THEN failed
                ELSE RSAPrivateNumbers_private_key(n.v[1], e.v[1], d.v[1], p.v[1],
                                                   q.v[1], dp.v[1], dq.v[1], qi.v[1],
                                                   accepted)
            : n \in {JwkInt(file.jwk, "n")}, e \in {JwkInt(file.jwk, "e")},
              d \in {JwkInt(file.jwk, "d")}, p \in {JwkInt(file.jwk, "p")},
              q \in {JwkInt(file.jwk, "q")}, dp \in {JwkInt(file.jwk, "dp")},
              dq \in {JwkInt(file.jwk, "dq")}, qi \in {JwkInt(file.jwk, "qi")}
            } : TRUE

\* str.strip(): leading and trailing white space removed
WhiteSpace == {9, 10, 11, 12, 13, 32}

RECURSIVE strip(_)
strip(s) ==
    IF Len(s) > 0 /\ s[1] \in WhiteSpace THEN strip(Tail(s))
    ELSE IF Len(s) > 0 /\ s[Len(s)] \in WhiteSpace THEN strip(SubSeq(s, 1, Len(s) - 1))
    ELSE s

\* get_anchor(node_url) on the reply of GET /tx_anchor
get_anchor(reply) == IF reply.status_code = 200 THEN Raw(strip(reply.text)) ELSE Empty

\* get_price(node_url, size) on the reply of GET /price/{size}
get_price(reply) == IF reply.status_code = 200 THEN Raw(strip(reply.text)) ELSE Raw(<<48>>)

(***************************************************************************)
(* main(): load the key, ask the node for anchor and fee, build the dict,  *)
(* sign it, post it.  An exception ends the run.                           *)
(***************************************************************************)
\* b"Hello from single-chunk v2 transaction!"
data_bytes ==
    Raw(<<72, 101, 108, 108, 111, 32, 102, 114, 111, 109, 32, 115, 105, 110, 103,
          108, 101, 45, 99, 104, 117, 110, 107, 32, 118, 50, 32, 116, 114, 97,
          110, 115, 97, 99, 116, 105, 111, 110, 33>>)

data_b64 == base64url_encode(data_bytes)

data_len == Len(data_bytes.v)

\* the dict of a key file: n, and the rest of a toy key (e = 3, d = 3, p = 3,
\* dp = 1, dq = 3, qi = 2) with the prime q
Jwk(n, q) ==
    << <<"n", n>>, <<"e", Raw(<<65, 119>>)>>, <<"d", Raw(<<65, 119>>)>>,
       <<"p", Raw(<<65, 119>>)>>, <<"q", q>>, <<"dp", Raw(<<65, 81>>)>>,
       <<"dq", Raw(<<65, 119>>)>>, <<"qi", Raw(<<65, 103>>)>> >>

\* n: "Dw" = 15, "FQ" = 21, "D" = no base64url; q: "BQ" = 5, "Bw" = 7
\* one of them lacks "q", and the last is no file at all
KeyFiles ==
    {[found |-> TRUE, jwk |-> Jwk(n, q)] :
        n \in {Raw(<<68, 119>>), Raw(<<70, 81>>), Raw(<<68>>)},
        q \in {Raw(<<66, 81>>), Raw(<<66, 119>>)}}
    \cup {[found |-> TRUE, jwk |-> Del(Jwk(Raw(<<68, 119>>), Raw(<<66, 81>>)), "q")],
          [found |-> FALSE, jwk |-> << >>]}

Reply(status_code, body) == [status_code |-> status_code, text |-> body]

\* GET /tx_anchor: "abc\n", "QQ", "" and "Q" with 200, and a 404
AnchorReplies ==
    {Reply(200, <<97, 98, 99, 10>>), Reply(200, <<81, 81>>), Reply(200, << >>),
     Reply(200, <<81>>), Reply(404, <<97, 98, 99>>)}

\* GET /price/39: "100\n" and "7" with 200, and a 500
PriceReplies ==
    {Reply(200, <<49, 48, 48, 10>>), Reply(200, <<55>>), Reply(500, << >>)}

\* POST /tx: the status codes a node answers
PostStatus == {200, 202, 400, 500}

MainInit ==
    /\ pc = "load_jwk"
    /\ key_file \in KeyFiles
    /\ private_key = None
    /\ anchor = None
    /\ reward = None
    /\ tx_fields = << >>
    /\ resp = 0
    /\ steps = << >>
    /\ raised = "none"
    /\ trace = << >>
    /\ before = << >>
    /\ dd = None
    /\ other_fields = << >>
    /\ dd_other = None
    /\ CodecIdle

\* an uncaught exception: main() is over
Crash(type) == raised' = type /\ pc' = "crashed"

\* privkey, jwk = load_jwk("arweave-key.json")
Main_load_jwk ==
    /\ pc = "load_jwk"
    /\ steps' = Append(steps, "load_jwk")
    /\ \E accepted \in BOOLEAN :
          \E key \in {load_jwk(key_file, accepted)} :
             IF IsErr(key)
             THEN Crash(key.v[1]) /\ UNCHANGED private_key
             ELSE private_key' = key.v[1] /\ pc' = "get_anchor" /\ UNCHANGED raised
    /\ UNCHANGED <<key_file, anchor, reward, resp, tx_fields, trace, before, dd,
                   other_fields, dd_other, codecVars>>

\* anchor = get_anchor(node_url)
Main_get_anchor ==
    /\ pc = "get_anchor"
    /\ steps' = Append(steps, "get_anchor")
    /\ \/ \E reply \in AnchorReplies :
             anchor' = get_anchor(reply) /\ pc' = "get_price" /\ UNCHANGED raised
       \/ Crash("ConnectionError") /\ UNCHANGED anchor
    /\ UNCHANGED <<key_file, private_key, reward, resp, tx_fields, trace, before, dd,
                   other_fields, dd_other, codecVars>>

\* reward = get_price(node_url, data_len)
Main_get_price ==
    /\ pc = "get_price"
    /\ steps' = Append(steps, "get_price")
    /\ \/ \E reply \in PriceReplies :
             reward' = get_price(reply) /\ pc' = "build" /\ UNCHANGED raised
       \/ Crash("ConnectionError") /\ UNCHANGED reward
    /\ UNCHANGED <<key_file, private_key, anchor, resp, tx_fields, trace, before, dd,
                   other_fields, dd_other, codecVars>>

\* tx_fields = {...}
Main_build ==
    /\ pc = "build"
    /\ steps' = Append(steps, "build")
    /\ tx_fields' = TxDict(2, Empty, anchor, Get(key_file.jwk, "n"), << >>, Empty, Raw(<<48>>),
                           data_b64, reward, Empty, StrOfInt(data_len), Empty)
    /\ pc' = "sign"
    /\ UNCHANGED <<key_file, private_key, anchor, reward, resp, raised, trace, before,
                   dd, other_fields, dd_other, codecVars>>

\* tx_fields = sign_transaction_v2(tx_fields, privkey)
Main_sign ==
    /\ pc = "sign"
    /\ steps' = Append(steps, "sign_transaction_v2")
    /\ \E sign_ok \in BOOLEAN :
          \E r \in {sign_transaction_v2(tx_fields, private_key, sign_ok)} :
             /\ tx_fields' = r.tx
             /\ trace' = r.trace
             /\ raised' = r.raised
             /\ pc' = IF r.raised = "none" THEN "post" ELSE "crashed"
    /\ before' = tx_fields
    /\ UNCHANGED <<key_file, private_key, anchor, reward, resp, dd, other_fields,
                   dd_other, codecVars>>

\* a variant of the posting step that posts again after a status that is
\* no success
Main_post_retry ==
    /\ pc = "post"
    /\ Len(steps) < 8
    /\ steps' = Append(steps, "post_transaction")
    /\ \/ \E status_code \in PostStatus :
             /\ resp' = status_code
             /\ pc' = IF status_code \in {200, 202} THEN "done" ELSE "post"
             /\ UNCHANGED raised
       \/ Crash("ConnectionError") /\ UNCHANGED resp
    /\ UNCHANGED <<key_file, private_key, anchor, reward, tx_fields, trace, before, dd,
                   other_fields, dd_other, codecVars>>

\* resp = post_transaction(node_url, tx_fields), and the two reports printed
Main_post ==
    /\ pc = "post"
    /\ steps' = Append(steps, "post_transaction")
    /\ \/ \E status_code \in PostStatus :
             resp' = status_code /\ pc' = "done" /\ UNCHANGED raised
       \/ Crash("ConnectionError") /\ UNCHANGED resp
    /\ UNCHANGED <<key_file, private_key, anchor, reward, tx_fields, trace, before, dd,
                   other_fields, dd_other, codecVars>>

MainNext ==
    \/ Main_load_jwk
    \/ Main_get_anchor
    \/ Main_get_price
    \/ Main_build
    \/ Main_sign
    \/ Main_post

SpecMain == MainInit /\ [][MainNext]_vars

\* the steps of main() in the order they are written
MainOrder ==
    <<"load_jwk", "get_anchor", "get_price", "build", "sign_transaction_v2",
      "post_transaction">>

Posts == Len(SelectSeq(steps, LAMBDA step : step = "post_transaction"))

\* C8: the steps of every run are a beginning of load key, fetch anchor,
\* fetch fee, build, sign, submit; the record is posted at most once, only
\* with signature and id set, and not again after any status.
C8_SubmitOnce ==
    /\ Len(steps) <= Len(MainOrder)
    /\ \A i \in 1..Len(steps) : steps[i] = MainOrder[i]
    /\ Posts <= 1
    /\ Posts = 1 => /\ Truthy(Get(tx_fields, "signature"))
                    /\ Truthy(Get(tx_fields, "id"))

\* the node answered the POST with a failure status, and main() is over
C8_Witness == pc = "done" /\ resp = 500 /\ Posts = 1

\* the key file's numbers all decode, and its modulus is not p * q
Inconsistent(file) ==
    /\ file.found
    /\ \A name \in {"n", "e", "d", "p", "q", "dp", "dq", "qi"} :
          ~IsErr(JwkInt(file.jwk, name))
    /\ JwkInt(file.jwk, "n").v[1]
           # JwkInt(file.jwk, "p").v[1] * JwkInt(file.jwk, "q").v[1]

====
